---- MODULE Spec2Model ----
\* Model of ci/scripts/metric_unify: main.py (MetricDb, diff_metrics,
\* apply_aggregations, generate_displayable_metrics) and flamegraph.py
\* (get_function_symbol, get_stack_lines).
\*
\* Python objects are modelled with a heap: a Metric is an index into `heap`,
\* and flat_dict and dict_by_label_types hold lists of such indices, so a write
\* to a Metric through one index is seen through the other.  A python dict is
\* an insertion-ordered sequence of [k, v] entries.  None is <<>> and a set
\* optional value v is <<v>>.  A float quotient a / b is the pair [num, den].
EXTENDS Integers, Sequences, FiniteSets, TLC

VARIABLES heap, db, db_old, built, nops, last, pre, fg_in, fg_out

vars == <<heap, db, db_old, built, nops, last, pre, fg_in, fg_out>>

\* ---------------------------------------------------------------- bounds

\* longest "counter" array of the current export
MaxCounters == 2
\* longest "counter" array of the previous export
MaxOldCounters == 1
\* longest "gauge" array of an export
MaxGauges == 1
\* calls made on the databases after their construction
MaxOps == 2
\* longest "counter" array given to get_stack_lines
MaxStackCounters == 2

\* ---------------------------------------------------------------- helpers

None == <<>>

Some(x) == <<x>>

Range(s) == {s[i] : i \in DOMAIN s}

SeqsUpTo(S, n) == UNION {[1..k -> S] : k \in 0..n}

\* python dict: `k in d`
DictHas(d, k) == \E i \in DOMAIN d : d[i].k = k

DictIndex(d, k) == CHOOSE i \in DOMAIN d : d[i].k = k

\* python dict: `d[k]`
DictGet(d, k) == d[DictIndex(d, k)].v

\* python dict: `d[k] = v` (a new key goes last, an old key keeps its place)
DictPut(d, k, v) ==
    IF DictHas(d, k)
    THEN [d EXCEPT ![DictIndex(d, k)].v = v]
    ELSE Append(d, [k |-> k, v |-> v])

\* python: dict(pairs), pairs a sequence of <<key, value>>
RECURSIVE DictOfFrom(_, _, _)
DictOfFrom(pairs, i, d) ==
    IF i > Len(pairs) THEN d
    ELSE DictOfFrom(pairs, i + 1, DictPut(d, pairs[i][1], pairs[i][2]))

DictOf(pairs) == DictOfFrom(pairs, 1, <<>>)

\* python: zip(a, b)
Zip(a, b) ==
    [i \in 1..(IF Len(a) < Len(b) THEN Len(a) ELSE Len(b)) |-> <<a[i], b[i]>>]

\* python's order of the label keys in use (str comparison, by code point)
StrRank ==
    [key \in {"air", "group", "seg"} |->
        CASE key = "air" -> 1
          [] key = "group" -> 2
          [] key = "seg" -> 3]

\* ---------------------------------------------------------------- main.py

labels_to_tuple(labels) ==
    [i \in 1..Len(labels) |-> <<labels[i][1], labels[i][2]>>]

Metric(name, value) ==
    [name |-> name, value |-> value, diff_value |-> None, diff_percent |-> None]

\* returns the new flat_dict and the new heap
add_to_flat_dict(labels, metric, value, flat_dict, h) ==
    LET id == Len(h) + 1
        fd == IF DictHas(flat_dict, labels) THEN flat_dict
              ELSE DictPut(flat_dict, labels, <<>>)
    IN  [flat_dict |-> DictPut(fd, labels, Append(DictGet(fd, labels), id)),
         heap |-> Append(h, Metric(metric, value))]

\* the sort key that gives "group" no priority
custom_sort_label_keys_plain(label_key) == <<1, label_key>>

custom_sort_label_keys(label_key) ==
    IF label_key = "group" THEN <<0, label_key>> ELSE <<1, label_key>>

\* python's tuple comparison of two sort keys
SortKeyLess(a, b) ==
    \/ a[1] < b[1]
    \/ a[1] = b[1] /\ StrRank[a[2]] < StrRank[b[2]]

\* python: sorted(keys, key=custom_sort_label_keys), a stable sort
RECURSIVE SortedFrom(_, _, _)
SortedFrom(keys, i, out) ==
    IF i > Len(keys) THEN out
    ELSE LET x == keys[i]
             \* x goes after every element that is not greater than it
             n == Cardinality({j \in DOMAIN out :
                      ~SortKeyLess(custom_sort_label_keys(x),
                                   custom_sort_label_keys(out[j]))})
         IN  SortedFrom(keys, i + 1,
                 SubSeq(out, 1, n) \o <<x>> \o SubSeq(out, n + 1, Len(out)))

Sorted(keys) == SortedFrom(keys, 1, <<>>)

\* one turn of the loop of separate_by_label_types
SeparateOne(labels, metrics, by_types) ==
    LET label_keys == Sorted([i \in 1..Len(labels) |-> labels[i][1]])
        label_dict == DictOf(labels)
        label_values ==
            [i \in 1..Len(label_keys) |-> DictGet(label_dict, label_keys[i])]
        d1 == IF DictHas(by_types, label_keys) THEN by_types
              ELSE DictPut(by_types, label_keys, <<>>)
        rows == DictGet(d1, label_keys)
        r1 == IF DictHas(rows, label_values) THEN rows
              ELSE DictPut(rows, label_values, <<>>)
        r2 == DictPut(r1, label_values, DictGet(r1, label_values) \o metrics)
    IN  DictPut(d1, label_keys, r2)

RECURSIVE SeparateFrom(_, _, _)
SeparateFrom(flat_dict, i, by_types) ==
    IF i > Len(flat_dict) THEN by_types
    ELSE SeparateFrom(flat_dict, i + 1,
             SeparateOne(flat_dict[i].k, flat_dict[i].v, by_types))

\* MetricDb.separate_by_label_types: the rows are extended, never cleared
separate_by_label_types(d) ==
    [d EXCEPT !.dict_by_label_types =
        SeparateFrom(d.flat_dict, 1, d.dict_by_label_types)]

EmptyDb == [flat_dict |-> <<>>, dict_by_label_types |-> <<>>]

\* the counter loop without the test of the value: a counter of value 0 is
\* stored like any other
RECURSIVE IngestCountersKeepZero(_, _, _, _)
IngestCountersKeepZero(recs, i, flat_dict, h) ==
    IF i > Len(recs) THEN [flat_dict |-> flat_dict, heap |-> h]
    ELSE LET labels == labels_to_tuple(recs[i].labels)
             r == add_to_flat_dict(labels, recs[i].metric, recs[i].value,
                                   flat_dict, h)
         IN  IngestCountersKeepZero(recs, i + 1, r.flat_dict, r.heap)

\* the counter loop of MetricDb.__init__
RECURSIVE IngestCounters(_, _, _, _)
IngestCounters(recs, i, flat_dict, h) ==
    IF i > Len(recs) THEN [flat_dict |-> flat_dict, heap |-> h]
    ELSE LET labels == labels_to_tuple(recs[i].labels)
             value == recs[i].value
         IN  IF value = 0
             THEN IngestCounters(recs, i + 1, flat_dict, h)
             ELSE LET r == add_to_flat_dict(labels, recs[i].metric, value,
                                            flat_dict, h)
                  IN  IngestCounters(recs, i + 1, r.flat_dict, r.heap)

\* the gauge loop of MetricDb.__init__
RECURSIVE IngestGauges(_, _, _, _)
IngestGauges(recs, i, flat_dict, h) ==
    IF i > Len(recs) THEN [flat_dict |-> flat_dict, heap |-> h]
    ELSE LET labels == labels_to_tuple(recs[i].labels)
             r == add_to_flat_dict(labels, recs[i].metric, recs[i].value,
                                   flat_dict, h)
         IN  IngestGauges(recs, i + 1, r.flat_dict, r.heap)

\* MetricDb.__init__: returns the new database and the new heap
MetricDb(data, h) ==
    LET c == IngestCounters(data.counter, 1, <<>>, h)
        g == IngestGauges(data.gauge, 1, c.flat_dict, c.heap)
    IN  [db |-> separate_by_label_types(
                    [flat_dict |-> g.flat_dict, dict_by_label_types |-> <<>>]),
         heap |-> g.heap]

\* lines 77-79 and 86-88: record['labels'], record['metric'] and
\* record['value'] raise KeyError when the record has no such key
KeyError(record) ==
    \E key \in {"labels", "metric", "value"} : key \notin DOMAIN record

\* some record of the export raises KeyError
KeyErrorIn(data) ==
    \/ \E i \in DOMAIN data.counter : KeyError(data.counter[i])
    \/ \E i \in DOMAIN data.gauge : KeyError(data.gauge[i])

\* the construction that passes over the records that lack a key
MetricDbSkipMalformed(data, h) ==
    LET r == MetricDb(
                 [counter |-> SelectSeq(data.counter, LAMBDA c : ~KeyError(c)),
                  gauge |-> SelectSeq(data.gauge, LAMBDA g : ~KeyError(g))], h)
    IN  [raised |-> FALSE, db |-> r.db, heap |-> r.heap]

\* MetricDb.__init__ for an export whose records may lack keys: the KeyError
\* leaves __init__ and no database exists, or the database is built
MetricDbInit(data, h) ==
    IF KeyErrorIn(data) THEN [raised |-> TRUE, db |-> EmptyDb, heap |-> h]
    ELSE LET r == MetricDb(data, h)
         IN  [raised |-> FALSE, db |-> r.db, heap |-> r.heap]

\* python: next((m for m in metrics if m.name == name), None)
FirstNamed(metrics, name, h) ==
    LET hits == {i \in DOMAIN metrics : h[metrics[i]].name = name}
    IN  IF hits = {} THEN None
        ELSE Some(metrics[CHOOSE i \in hits : \A j \in hits : i <= j])

\* the body of the inner loop that writes the difference into the metric of
\* db_old as well
DiffOneBoth(metric, olds, h) ==
    LET metric_old == FirstNamed(olds, h[metric].name, h)
    IN  IF metric_old = None THEN h
        ELSE LET d == h[metric].value - h[metric_old[1]].value
             IN  [h EXCEPT ![metric].diff_value = Some(d),
                           ![metric_old[1]].diff_value = Some(d)]

\* the body of the inner loop of diff_metrics, for one metric of db
DiffOne(metric, olds, h) ==
    LET metric_old == FirstNamed(olds, h[metric].name, h)
    IN  IF metric_old = None THEN h
        ELSE LET old == h[metric_old[1]]
                 h1 == [h EXCEPT ![metric].diff_value =
                           Some(h[metric].value - old.value)]
             IN  IF old.value # 0
                 THEN [h1 EXCEPT ![metric].diff_percent =
                          Some([num |-> h[metric].value - old.value,
                                den |-> old.value])]
                 ELSE h1

RECURSIVE DiffMetricsOf(_, _, _, _)
DiffMetricsOf(metrics, i, olds, h) ==
    IF i > Len(metrics) THEN h
    ELSE DiffMetricsOf(metrics, i + 1, olds, DiffOne(metrics[i], olds, h))

RECURSIVE DiffFrom(_, _, _, _)
DiffFrom(flat_dict, i, old_flat_dict, h) ==
    IF i > Len(flat_dict) THEN h
    ELSE IF ~DictHas(old_flat_dict, flat_dict[i].k)
         THEN DiffFrom(flat_dict, i + 1, old_flat_dict, h)
         ELSE DiffFrom(flat_dict, i + 1, old_flat_dict,
                  DiffMetricsOf(flat_dict[i].v, 1,
                                DictGet(old_flat_dict, flat_dict[i].k), h))

\* diff_metrics: returns the new db and the new heap
diff_metrics(d, d_old, h) ==
    [db |-> separate_by_label_types(d),
     heap |-> DiffFrom(d.flat_dict, 1, d_old.flat_dict, h)]

Aggregation(name, group_by, metrics, operation) ==
    [name |-> name, group_by |-> group_by, metrics |-> metrics,
     operation |-> operation]

\* the rows of dict_by_label_types in the order the nested loops visit them:
\* one [keys, values, metric] per metric of each row of each shape
RowItems(tuple_keys, tuple_values, metrics) ==
    [i \in 1..Len(metrics) |->
        [keys |-> tuple_keys, values |-> tuple_values, metric |-> metrics[i]]]

RECURSIVE ShapeItems(_, _, _)
ShapeItems(tuple_keys, metrics_dict, i) ==
    IF i > Len(metrics_dict) THEN <<>>
    ELSE RowItems(tuple_keys, metrics_dict[i].k, metrics_dict[i].v)
         \o ShapeItems(tuple_keys, metrics_dict, i + 1)

RECURSIVE TypeItems(_, _)
TypeItems(by_types, i) ==
    IF i > Len(by_types) THEN <<>>
    ELSE ShapeItems(by_types[i].k, by_types[i].v, 1) \o TypeItems(by_types, i + 1)

\* lines 169-179 of apply_aggregations: the sums of one rule, by group_by values
RECURSIVE GroupByDict(_, _, _, _, _)
GroupByDict(aggregation, items, i, h, group_by_dict) ==
    IF i > Len(items) THEN group_by_dict
    ELSE LET it == items[i]
         IN  IF ~(Range(aggregation.group_by) \subseteq Range(it.keys))
             THEN GroupByDict(aggregation, items, i + 1, h, group_by_dict)
             ELSE LET label_dict == DictOf(Zip(it.keys, it.values))
                      group_by_values ==
                          [j \in 1..Len(aggregation.group_by) |->
                              DictGet(label_dict, aggregation.group_by[j])]
                  IN  IF h[it.metric].name \in Range(aggregation.metrics)
                      THEN LET g == IF DictHas(group_by_dict, group_by_values)
                                    THEN group_by_dict
                                    ELSE DictPut(group_by_dict, group_by_values, 0)
                           IN  GroupByDict(aggregation, items, i + 1, h,
                                   DictPut(g, group_by_values,
                                       DictGet(g, group_by_values)
                                       + h[it.metric].value))
                      ELSE GroupByDict(aggregation, items, i + 1, h, group_by_dict)

\* the injection that appends a new Metric whatever flat_dict holds
InjectAppend(aggregation, group_by_values, sum, st) ==
    LET aggregation_label ==
            labels_to_tuple(Zip(aggregation.group_by, group_by_values))
        fd == IF DictHas(st.flat_dict, aggregation_label) THEN st.flat_dict
              ELSE DictPut(st.flat_dict, aggregation_label, <<>>)
    IN  [st EXCEPT
            !.flat_dict =
                DictPut(fd, aggregation_label,
                    Append(DictGet(fd, aggregation_label), Len(st.heap) + 1)),
            !.heap = Append(st.heap, Metric(aggregation.name, sum))]

\* the injection that records nothing
InjectNothing(aggregation, group_by_values, sum, st) == st

\* the injection that puts the sum in the place of the metrics of the label list
InjectReplace(aggregation, group_by_values, sum, st) ==
    LET aggregation_label ==
            labels_to_tuple(Zip(aggregation.group_by, group_by_values))
    IN  [st EXCEPT
            !.flat_dict = DictPut(st.flat_dict, aggregation_label,
                                  <<Len(st.heap) + 1>>),
            !.heap = Append(st.heap, Metric(aggregation.name, sum))]

\* lines 182-194 of apply_aggregations: one sum goes into flat_dict
Inject(aggregation, group_by_values, sum, st) ==
    LET aggregation_label ==
            labels_to_tuple(Zip(aggregation.group_by, group_by_values))
        fd == IF DictHas(st.flat_dict, aggregation_label) THEN st.flat_dict
              ELSE DictPut(st.flat_dict, aggregation_label, <<>>)
        found == FirstNamed(DictGet(fd, aggregation_label), aggregation.name,
                            st.heap)
    IN  IF found # None
        THEN [st EXCEPT
                 !.flat_dict = fd,
                 !.heap = [st.heap EXCEPT ![found[1]].value = sum],
                 !.warned = st.warned \/ st.heap[found[1]].value # sum]
        ELSE [st EXCEPT
                 !.flat_dict =
                     DictPut(fd, aggregation_label,
                         Append(DictGet(fd, aggregation_label),
                                Len(st.heap) + 1)),
                 !.heap = Append(st.heap, Metric(aggregation.name, sum))]

RECURSIVE InjectFrom(_, _, _, _)
InjectFrom(aggregation, group_by_dict, i, st) ==
    IF i > Len(group_by_dict) THEN st
    ELSE InjectFrom(aggregation, group_by_dict, i + 1,
             Inject(aggregation, group_by_dict[i].k, group_by_dict[i].v, st))

\* the loop over the rules that passes over a rule that is not a sum
RECURSIVE ApplyFromSkip(_, _, _, _)
ApplyFromSkip(aggregations, i, by_types, st) ==
    IF i > Len(aggregations) THEN st
    ELSE IF aggregations[i].operation = "sum"
         THEN ApplyFromSkip(aggregations, i + 1, by_types,
                  InjectFrom(aggregations[i],
                      GroupByDict(aggregations[i], TypeItems(by_types, 1), 1,
                                  st.heap, <<>>),
                      1, st))
         ELSE ApplyFromSkip(aggregations, i + 1, by_types, st)

\* the loop over the rules that looks at every operation before it applies a
\* rule: a list with a rule that is not a sum changes nothing
RECURSIVE ApplyFromAtomic(_, _, _, _)
ApplyFromAtomic(aggregations, i, by_types, st) ==
    IF i > Len(aggregations) THEN st
    ELSE IF \E j \in i..Len(aggregations) : aggregations[j].operation # "sum"
         THEN [st EXCEPT !.raised = TRUE]
         ELSE ApplyFromAtomic(aggregations, i + 1, by_types,
                  InjectFrom(aggregations[i],
                      GroupByDict(aggregations[i], TypeItems(by_types, 1), 1,
                                  st.heap, <<>>),
                      1, st))

\* the loop over the rules; by_types is not rebuilt between two rules
RECURSIVE ApplyFrom(_, _, _, _)
ApplyFrom(aggregations, i, by_types, st) ==
    IF i > Len(aggregations) THEN st
    ELSE IF aggregations[i].operation = "sum"
         THEN ApplyFrom(aggregations, i + 1, by_types,
                  InjectFrom(aggregations[i],
                      GroupByDict(aggregations[i], TypeItems(by_types, 1), 1,
                                  st.heap, <<>>),
                      1, st))
         ELSE [st EXCEPT !.raised = TRUE]

\* apply_aggregations without the call of separate_by_label_types that ends it
apply_aggregations_no_rebuild(d, aggregations, h) ==
    LET st == ApplyFrom(aggregations, 1, d.dict_by_label_types,
                  [flat_dict |-> d.flat_dict, heap |-> h,
                   warned |-> FALSE, raised |-> FALSE])
    IN  [db |-> [d EXCEPT !.flat_dict = st.flat_dict],
         heap |-> st.heap, warned |-> st.warned, raised |-> st.raised]

\* apply_aggregations: returns the new db and heap, whether an overwrite
\* warning was printed, and whether ValueError was raised
apply_aggregations(d, aggregations, h) ==
    LET st == ApplyFrom(aggregations, 1, d.dict_by_label_types,
                  [flat_dict |-> d.flat_dict, heap |-> h,
                   warned |-> FALSE, raised |-> FALSE])
        d1 == [d EXCEPT !.flat_dict = st.flat_dict]
    IN  [db |-> IF st.raised THEN d1 ELSE separate_by_label_types(d1),
         heap |-> st.heap, warned |-> st.warned, raised |-> st.raised]

\* ---------------------------------------------------------------- flamegraph.py

\* A str or bytes value is the sequence of its characters; the byte 0 of the
\* string table is NUL.
NUL == "NUL"

Digits == {"0", "1", "2", "3", "4", "5", "6", "7", "8", "9"}

DigitValue ==
    [c \in Digits |->
        CASE c = "0" -> 0 [] c = "1" -> 1 [] c = "2" -> 2 [] c = "3" -> 3
          [] c = "4" -> 4 [] c = "5" -> 5 [] c = "6" -> 6 [] c = "7" -> 7
          [] c = "8" -> 8 [] c = "9" -> 9]

IsDigits(s) == Len(s) > 0 /\ \A i \in DOMAIN s : s[i] \in Digits

RECURSIVE DecimalValue(_)
DecimalValue(s) ==
    IF Len(s) = 0 THEN 0
    ELSE 10 * DecimalValue(SubSeq(s, 1, Len(s) - 1)) + DigitValue[s[Len(s)]]

\* python: int(str) for a str of signs, digits and other characters;
\* None stands for ValueError
ParseInt(s) ==
    IF IsDigits(s) THEN Some(DecimalValue(s))
    ELSE IF Len(s) > 1 /\ s[1] = "-" /\ IsDigits(Tail(s))
    THEN Some(0 - DecimalValue(Tail(s)))
    ELSE IF Len(s) > 1 /\ s[1] = "+" /\ IsDigits(Tail(s))
    THEN Some(DecimalValue(Tail(s)))
    ELSE None

\* python: the index a slice or find start stands for (from 0)
StartIndex(n, start) ==
    IF start < 0 THEN (IF n + start < 0 THEN 0 ELSE n + start)
    ELSE IF start > n THEN n ELSE start

\* python: string_table.find(b'\0', start), indices from 0
Find(string_table, start) ==
    LET n == Len(string_table)
        hits == {i \in StartIndex(n, start)..(n - 1) : string_table[i + 1] = NUL}
    IN  IF start > n \/ hits = {} THEN 0 - 1
        ELSE CHOOSE i \in hits : \A j \in hits : i <= j

\* python: string_table[start:end], indices from 0
Slice(string_table, start, end) ==
    SubSeq(string_table, StartIndex(Len(string_table), start) + 1,
           StartIndex(Len(string_table), end))

\* the lookup that resolves nothing: the text of the offset is returned
get_function_symbol_raw(string_table, offset_str) == Some(offset_str)

\* get_function_symbol: None, or Some(the str returned)
get_function_symbol(string_table, offset_str) ==
    LET offset_int == ParseInt(offset_str)
    IN  IF offset_int = None THEN Some(offset_str)
        ELSE LET end == Find(string_table, offset_int[1])
             IN  IF end = 0 - 1 THEN None
                 ELSE Some(Slice(string_table, offset_int[1], end))

\* python: s.split(';')
RECURSIVE SplitFrom(_, _, _, _)
SplitFrom(s, i, cur, out) ==
    IF i > Len(s) THEN Append(out, cur)
    ELSE IF s[i] = ";" THEN SplitFrom(s, i + 1, <<>>, Append(out, cur))
    ELSE SplitFrom(s, i + 1, Append(cur, s[i]), out)

Split(s) == SplitFrom(s, 1, <<>>, <<>>)

\* python: ';'.join(parts), for parts that are all str
RECURSIVE Join(_)
Join(parts) ==
    IF Len(parts) = 0 THEN <<>>
    ELSE IF Len(parts) = 1 THEN parts[1][1]
    ELSE parts[1][1] \o <<";">> \o Join(Tail(parts))

\* lines 36-37 of get_stack_lines: the record's metric is not asked for
SkippedMetric(counter, metric_name, sum_metrics) ==
    \/ sum_metrics # None /\ counter.metric \notin Range(sum_metrics[1])
    \/ sum_metrics = None /\ counter.metric # metric_name

\* the filter that lets every record through
FilteredNever(labels, group_by_kvs) == FALSE

\* lines 42-46: some pair of group_by_kvs is not in the labels
Filtered(labels, group_by_kvs) ==
    \E i \in DOMAIN group_by_kvs :
        \/ ~DictHas(labels, group_by_kvs[i][1])
        \/ DictGet(labels, group_by_kvs[i][1]) # group_by_kvs[i][2]

\* lines 50-63: the loop over stack_keys; a value is None or Some(str)
RECURSIVE StackValues(_, _, _, _, _)
StackValues(labels, stack_keys, i, string_table, stack_values) ==
    IF i > Len(stack_keys) THEN [filter |-> FALSE, stack_values |-> stack_values]
    ELSE LET key == stack_keys[i]
         IN  IF ~DictHas(labels, key)
             THEN [filter |-> TRUE, stack_values |-> stack_values]
             ELSE IF key = "cycle_tracker_span"
                     /\ ~(DictGet(labels, key) = <<>> \/ string_table = None)
             THEN LET symbol_offsets == Split(DictGet(labels, key))
                      function_symbols ==
                          [j \in 1..Len(symbol_offsets) |->
                              get_function_symbol(string_table[1],
                                                  symbol_offsets[j])]
                  IN  StackValues(labels, stack_keys, i + 1, string_table,
                                  stack_values \o function_symbols)
             ELSE StackValues(labels, stack_keys, i + 1, string_table,
                              Append(stack_values, Some(DictGet(labels, key))))

\* the assignment without the previous sum: the last value of a path wins
AccumulateOverwrite(stack_sums, stack, value) ==
    DictPut(stack_sums, stack, value)

\* line 69: stack_sums[stack] = stack_sums.get(stack, 0) + value
Accumulate(stack_sums, stack, value) ==
    DictPut(stack_sums, stack,
            (IF DictHas(stack_sums, stack) THEN DictGet(stack_sums, stack) ELSE 0)
            + value)

\* line 74: the lines of the sums that are not 0; the line f"{stack} {value}"
\* is kept as its two fields
Lines(stack_sums) ==
    LET keep == SelectSeq([i \in DOMAIN stack_sums |-> i],
                          LAMBDA i : stack_sums[i].v # 0)
    IN  [j \in 1..Len(keep) |->
            [stack |-> stack_sums[keep[j]].k, value |-> stack_sums[keep[j]].v]]

\* the loop over the counters; st.raised is the TypeError of ';'.join
RECURSIVE StackLoop(_, _, _, _, _, _, _, _)
StackLoop(counters, i, group_by_kvs, stack_keys, metric_name, sum_metrics, string_table, st) ==
    IF i > Len(counters) THEN st
    ELSE IF SkippedMetric(counters[i], metric_name, sum_metrics)
    THEN StackLoop(counters, i + 1, group_by_kvs, stack_keys, metric_name,
                   sum_metrics, string_table, st)
    ELSE LET labels == DictOf(counters[i].labels)
         IN  IF Filtered(labels, group_by_kvs)
             THEN StackLoop(counters, i + 1, group_by_kvs, stack_keys,
                            metric_name, sum_metrics, string_table, st)
             ELSE LET sv == StackValues(labels, stack_keys, 1, string_table, <<>>)
                      value == counters[i].value
                  IN  IF sv.filter
                      THEN StackLoop(counters, i + 1, group_by_kvs, stack_keys,
                                     metric_name, sum_metrics, string_table, st)
                      ELSE IF \E j \in DOMAIN sv.stack_values :
                                  sv.stack_values[j] = None
                      THEN [st EXCEPT !.raised = TRUE]
                      ELSE StackLoop(counters, i + 1, group_by_kvs, stack_keys,
                               metric_name, sum_metrics, string_table,
                               [st EXCEPT
                                   !.stack_sums =
                                       Accumulate(st.stack_sums,
                                                  Join(sv.stack_values), value),
                                   !.non_zero = st.non_zero \/ value # 0])

\* get_stack_lines: the lines returned, or raised = TRUE for the TypeError
get_stack_lines(metrics_dict, group_by_kvs, stack_keys, metric_name, sum_metrics, string_table) ==
    LET st == StackLoop(metrics_dict.counter, 1, group_by_kvs, stack_keys,
                        metric_name, sum_metrics, string_table,
                        [stack_sums |-> <<>>, non_zero |-> FALSE,
                         raised |-> FALSE])
    IN  IF st.raised THEN [raised |-> TRUE, lines |-> <<>>]
        ELSE [raised |-> FALSE,
              lines |-> IF st.non_zero THEN Lines(st.stack_sums) ELSE <<>>]

\* ---------------------------------------------------------------- inputs

LGA == <<<<"group", "x">>, <<"air", "a">>>>

LAG == <<<<"air", "a">>, <<"group", "x">>>>

LG == <<<<"group", "x">>>>

LY == <<<<"group", "y">>>>

LSA == <<<<"seg", "s">>, <<"air", "a">>>>

\* the counter records of the exports: a zero, a label list and its
\* permutation, a second value of "group", two keys without "group"
CounterRecords ==
    {[labels |-> LGA, metric |-> "cycles", value |-> 0],
     [labels |-> LGA, metric |-> "cycles", value |-> 1],
     [labels |-> LAG, metric |-> "cycles", value |-> 2],
     [labels |-> LY, metric |-> "cycles", value |-> 1],
     [labels |-> LSA, metric |-> "cycles", value |-> 1]}

\* the gauge records of the exports: a metric named as the aggregate at the
\* label list the aggregate goes to, a zero, a summed metric at that label
\* list, a metric without labels, a metric named as a counter under that
\* counter's label list
GaugeRecords ==
    {[labels |-> LG, metric |-> "total", value |-> 2],
     [labels |-> LY, metric |-> "cycles", value |-> 0],
     [labels |-> LG, metric |-> "cycles", value |-> 3],
     [labels |-> <<>>, metric |-> "cycles", value |-> 2],
     [labels |-> LAG, metric |-> "cycles", value |-> 1]}

Export(counters, gauges) == [counter |-> counters, gauge |-> gauges]

EmptyExport == Export(<<>>, <<>>)

Exports ==
    {Export(c, g) : c \in SeqsUpTo(CounterRecords, MaxCounters),
                    g \in SeqsUpTo(GaugeRecords, MaxGauges)}

OldExports ==
    {Export(c, g) : c \in SeqsUpTo(CounterRecords, MaxOldCounters),
                    g \in SeqsUpTo(GaugeRecords, MaxGauges)}

SumCycles == Aggregation("total", <<"group">>, <<"cycles">>, "sum")

SumTotals == Aggregation("grand", <<"group">>, <<"total">>, "sum")

MaxCycles == Aggregation("peak", <<"group">>, <<"cycles">>, "max")

\* records that lack one key: the labels, the metric (with the value 0), the value
MalformedRecords ==
    {[metric |-> "cycles", value |-> 1],
     [labels |-> LG, value |-> 0],
     [labels |-> LG, metric |-> "cycles"]}

\* exports with such a record, as a counter after a complete one or as a gauge
MalformedExports ==
    {Export(<<[labels |-> LY, metric |-> "cycles", value |-> 1], r>>, <<>>) :
        r \in MalformedRecords}
    \cup {Export(<<>>, <<r>>) : r \in MalformedRecords}

AggregationFiles ==
    {<<SumCycles>>, <<SumCycles, SumTotals>>, <<SumCycles, MaxCycles>>,
     <<MaxCycles, SumCycles>>}

\* label lists of the counters given to get_stack_lines: two that join to
\* the path f;g;a, one of another group with the offsets 0 and 2, one with the
\* offsets 4 (no NUL after it) and 9 (past the end), one without a span, one
\* with the empty span
StackLabels ==
    {<<<<"group", <<"x">>>>, <<"cycle_tracker_span", <<"f", ";", "g">>>>,
       <<"op", <<"a">>>>>>,
     <<<<"group", <<"x">>>>, <<"cycle_tracker_span", <<"f">>>>,
       <<"op", <<"g", ";", "a">>>>>>,
     <<<<"group", <<"y">>>>, <<"cycle_tracker_span", <<"0", ";", "2">>>>,
       <<"op", <<"a">>>>>>,
     <<<<"group", <<"x">>>>, <<"cycle_tracker_span", <<"4", ";", "9">>>>,
       <<"op", <<"a">>>>>>,
     <<<<"group", <<"x">>>>, <<"op", <<"a">>>>>>,
     <<<<"group", <<"x">>>>, <<"cycle_tracker_span", <<>>>>, <<"op", <<"a">>>>>>}

StackCounters ==
    [labels : StackLabels, metric : {"frequency", "fixed_cells"},
     value : {0, 2, 3}]

\* the symbols m at 0 and h at 2, and a last symbol z without its NUL
StringTable == <<"m", NUL, "h", NUL, "z">>

StackInputs ==
    [metrics_dict : {[counter |-> c] :
                        c \in SeqsUpTo(StackCounters, MaxStackCounters)},
     group_by_kvs : {<<>>, <<<<"group", <<"x">>>>>>},
     stack_keys : {<<"cycle_tracker_span", "op">>},
     metric_name : {"frequency"},
     sum_metrics : {None, Some(<<"frequency", "fixed_cells">>)},
     string_table : {None, Some(StringTable)}]

\* ---------------------------------------------------------------- main.py runs

\* the call made last: its name, its arguments, what it printed and raised
NoCall ==
    [op |-> "none", target |-> "none", data |-> EmptyExport, old_data |-> None,
     aggregations |-> None, warned |-> FALSE, raised |-> FALSE]

\* the state the last call started from
Snapshot == [heap |-> heap, db |-> db, db_old |-> db_old, last |-> last]

FgIdle == [called |-> FALSE]

Init ==
    /\ heap = <<>>
    /\ db = EmptyDb
    /\ db_old = EmptyDb
    /\ built = {}
    /\ nops = 0
    /\ last = NoCall
    /\ pre = [heap |-> <<>>, db |-> EmptyDb, db_old |-> EmptyDb, last |-> NoCall]
    /\ fg_in = FgIdle
    /\ fg_out = FgIdle

\* an uncaught ValueError ends the script
Running == ~last.raised /\ last.op # "generate_displayable_metrics"

\* db = MetricDb(metrics_json)
NewMetricDb ==
    /\ Running
    /\ "db" \notin built
    /\ \E data \in Exports :
        /\ LET r == MetricDb(data, heap)
           IN  /\ heap' = r.heap
               /\ db' = r.db
        /\ built' = built \cup {"db"}
        /\ last' = [NoCall EXCEPT !.op = "MetricDb", !.target = "db",
                                  !.data = data]
        /\ pre' = Snapshot
        /\ UNCHANGED <<db_old, nops, fg_in, fg_out>>

\* db_old = MetricDb(old_metrics_json)
NewMetricDbOld ==
    /\ Running
    /\ "db" \in built
    /\ "db_old" \notin built
    /\ nops = 0
    /\ \E data \in OldExports :
        /\ LET r == MetricDb(data, heap)
           IN  /\ heap' = r.heap
               /\ db_old' = r.db
        /\ built' = built \cup {"db_old"}
        /\ last' = [NoCall EXCEPT !.op = "MetricDb", !.target = "db_old",
                                  !.data = data]
        /\ pre' = Snapshot
        /\ UNCHANGED <<db, nops, fg_in, fg_out>>

\* apply_aggregations(db, aggregations)
ApplyAggregations ==
    /\ Running
    /\ "db" \in built
    /\ nops < MaxOps
    /\ \E aggregations \in AggregationFiles :
        /\ LET r == apply_aggregations(db, aggregations, heap)
           IN  /\ heap' = r.heap
               /\ db' = r.db
               /\ last' = [NoCall EXCEPT !.op = "apply_aggregations",
                                         !.target = "db",
                                         !.aggregations = Some(aggregations),
                                         !.warned = r.warned,
                                         !.raised = r.raised]
        /\ nops' = nops + 1
        /\ pre' = Snapshot
        /\ UNCHANGED <<db_old, built, fg_in, fg_out>>

\* diff_metrics(db, db_old)
DiffMetrics ==
    /\ Running
    /\ built = {"db", "db_old"}
    /\ nops < MaxOps
    /\ LET r == diff_metrics(db, db_old, heap)
       IN  /\ heap' = r.heap
           /\ db' = r.db
    /\ last' = [NoCall EXCEPT !.op = "diff_metrics", !.target = "db"]
    /\ nops' = nops + 1
    /\ pre' = Snapshot
    /\ UNCHANGED <<db_old, built, fg_in, fg_out>>

\* db.separate_by_label_types()
SeparateByLabelTypes ==
    /\ Running
    /\ "db" \in built
    /\ nops < MaxOps
    /\ db' = separate_by_label_types(db)
    /\ last' = [NoCall EXCEPT !.op = "separate_by_label_types", !.target = "db"]
    /\ nops' = nops + 1
    /\ pre' = Snapshot
    /\ UNCHANGED <<heap, db_old, built, fg_in, fg_out>>

\* the run that diffs the two databases first and applies the rules to them
\* afterwards
GenerateDisplayableMetricsDiffFirst ==
    /\ Running
    /\ built = {}
    /\ \E metrics_json \in Exports \cup MalformedExports,
          old_metrics_json \in
              {None} \cup {Some(e) : e \in OldExports \cup MalformedExports},
          aggregation_json \in {None} \cup {Some(a) : a \in AggregationFiles} :
       \E m0 \in {MetricDbInit(metrics_json, heap)} :
       \E m1 \in {IF m0.raised \/ old_metrics_json = None
                  THEN [raised |-> m0.raised, db |-> EmptyDb, heap |-> m0.heap]
                  ELSE MetricDbInit(old_metrics_json[1], m0.heap)} :
       \E df \in {IF m1.raised \/ old_metrics_json = None
                  THEN [db |-> m0.db, heap |-> m1.heap]
                  ELSE diff_metrics(m0.db, m1.db, m1.heap)} :
       \E a0 \in {IF m1.raised
                  THEN [db |-> df.db, heap |-> df.heap,
                        warned |-> FALSE, raised |-> TRUE]
                  ELSE IF aggregation_json # None
                  THEN apply_aggregations(df.db, aggregation_json[1], df.heap)
                  ELSE [db |-> df.db, heap |-> df.heap,
                        warned |-> FALSE, raised |-> FALSE]} :
       \E a1 \in {IF a0.raised \/ aggregation_json = None
                               \/ old_metrics_json = None
                  THEN [db |-> m1.db, heap |-> a0.heap,
                        warned |-> FALSE, raised |-> a0.raised]
                  ELSE apply_aggregations(m1.db, aggregation_json[1],
                                          a0.heap)} :
        /\ heap' = a1.heap
        /\ db' = a0.db
        /\ db_old' = a1.db
        /\ last' = [op |-> "generate_displayable_metrics",
                    target |-> "db", data |-> metrics_json,
                    old_data |-> old_metrics_json,
                    aggregations |-> aggregation_json,
                    warned |-> a0.warned \/ a1.warned,
                    raised |-> a1.raised]
        /\ built' = IF old_metrics_json = None THEN {"db"} ELSE {"db", "db_old"}
        /\ nops' = nops
        /\ pre' = Snapshot
        /\ UNCHANGED <<fg_in, fg_out>>

\* one run of the script: generate_displayable_metrics(...) up to the rendering
\* of the tables.  old_metrics_json and aggregation_json are None or Some(the
\* file's content); a KeyError of MetricDb or a ValueError of
\* apply_aggregations ends the call, which then returns nothing.  Each
\* \E over a one-element set names the result of one call of the function.
GenerateDisplayableMetrics ==
    /\ Running
    /\ built = {}
    /\ \E metrics_json \in Exports \cup MalformedExports,
          old_metrics_json \in
              {None} \cup {Some(e) : e \in OldExports \cup MalformedExports},
          aggregation_json \in {None} \cup {Some(a) : a \in AggregationFiles} :
       \E m0 \in {MetricDbInit(metrics_json, heap)} :
       \E a0 \in {IF m0.raised
                  THEN [db |-> m0.db, heap |-> m0.heap,
                        warned |-> FALSE, raised |-> TRUE]
                  ELSE IF aggregation_json # None
                  THEN apply_aggregations(m0.db, aggregation_json[1], m0.heap)
                  ELSE [db |-> m0.db, heap |-> m0.heap,
                        warned |-> FALSE, raised |-> FALSE]} :
        /\ IF a0.raised \/ old_metrics_json = None
           THEN /\ heap' = a0.heap
                /\ db' = a0.db
                /\ db_old' = EmptyDb
                /\ last' = [op |-> "generate_displayable_metrics",
                            target |-> "db", data |-> metrics_json,
                            old_data |-> old_metrics_json,
                            aggregations |-> aggregation_json,
                            warned |-> a0.warned, raised |-> a0.raised]
           ELSE \E m1 \in {MetricDbInit(old_metrics_json[1], a0.heap)} :
                \E a1 \in {IF m1.raised
                           THEN [db |-> m1.db, heap |-> m1.heap,
                                 warned |-> FALSE, raised |-> TRUE]
                           ELSE IF aggregation_json # None
                           THEN apply_aggregations(m1.db, aggregation_json[1],
                                                   m1.heap)
                           ELSE [db |-> m1.db, heap |-> m1.heap,
                                 warned |-> FALSE, raised |-> FALSE]} :
                \E df \in {IF a1.raised THEN [db |-> a0.db, heap |-> a1.heap]
                           ELSE diff_metrics(a0.db, a1.db, a1.heap)} :
                    /\ heap' = df.heap
                    /\ db' = df.db
                    /\ db_old' = a1.db
                    /\ last' = [op |-> "generate_displayable_metrics",
                                target |-> "db", data |-> metrics_json,
                                old_data |-> old_metrics_json,
                                aggregations |-> aggregation_json,
                                warned |-> a0.warned \/ a1.warned,
                                raised |-> a1.raised]
        /\ built' = IF old_metrics_json = None THEN {"db"} ELSE {"db", "db_old"}
        /\ nops' = nops
        /\ pre' = Snapshot
        /\ UNCHANGED <<fg_in, fg_out>>

Next ==
    \/ NewMetricDb
    \/ NewMetricDbOld
    \/ ApplyAggregations
    \/ DiffMetrics
    \/ SeparateByLabelTypes
    \/ GenerateDisplayableMetrics

Spec == Init /\ [][Next]_vars

\* ---------------------------------------------------------------- flamegraph.py runs

\* one call of get_stack_lines
GetStackLines ==
    /\ ~fg_in.called
    /\ \E in \in StackInputs :
        /\ fg_in' = [called |-> TRUE, args |-> in]
        /\ LET r == get_stack_lines(in.metrics_dict, in.group_by_kvs,
                                    in.stack_keys, in.metric_name,
                                    in.sum_metrics, in.string_table)
           IN  fg_out' = [called |-> TRUE, raised |-> r.raised, lines |-> r.lines]
    /\ UNCHANGED <<heap, db, db_old, built, nops, last, pre>>

NextStack == GetStackLines

SpecStack == Init /\ [][NextStack]_vars

\* the construction of the database alone
\* the construction of one database and the rebuilds of its shaped index
NextShape == NewMetricDb \/ SeparateByLabelTypes

SpecShape == Init /\ [][NextShape]_vars

\* the construction of one database and the calls of apply_aggregations on it
NextApply == NewMetricDb \/ ApplyAggregations

SpecApply == Init /\ [][NextApply]_vars

\* the runs of the script
NextReport == GenerateDisplayableMetrics

SpecReport == Init /\ [][NextReport]_vars

NextIngest == NewMetricDb

SpecIngest == Init /\ [][NextIngest]_vars

\* ---------------------------------------------------------------- properties

\* the number of times x occurs in the list s
Count(x, s) == Cardinality({i \in DOMAIN s : s[i] = x})

\* the label list `labels` has the key tuple `keys` with the values `values`
HasShape(labels, keys, values) ==
    /\ Len(keys) = Len(labels)
    /\ Len(values) = Len(keys)
    /\ {<<keys[i], values[i]>> : i \in DOMAIN keys} = Range(labels)

RECURSIVE SumValues(_, _)
SumValues(ids, h) ==
    IF ids = {} THEN 0
    ELSE LET id == CHOOSE x \in ids : TRUE
         IN  h[id].value + SumValues(ids \ {id}, h)

\* C1: after any sequence of calls that each end with separate_by_label_types,
\* every row of dict_by_label_types lists exactly the metrics of the flat_dict
\* label lists with the row's keys and values, each metric once, and one more
\* separate_by_label_types leaves dict_by_label_types as it was.
C1_ShapedIndexIsFunctionOfFlatIndex ==
    ~last.raised =>
        /\ \A s \in Range(db.dict_by_label_types) :
           \A r \in Range(s.v) :
           \A id \in DOMAIN heap :
               Count(id, r.v) =
                   IF \E e \in Range(db.flat_dict) :
                          HasShape(e.k, s.k, r.k) /\ id \in Range(e.v)
                   THEN 1 ELSE 0
        /\ last.op = "separate_by_label_types" =>
               db.dict_by_label_types = pre.db.dict_by_label_types

\* a list of rules none of which sums a metric that a rule of the list writes
ReadsNoAggregate(aggregations) ==
    \A i, j \in DOMAIN aggregations :
        aggregations[j].name \notin Range(aggregations[i].metrics)

\* C2: apply_aggregations(db, rules) right after apply_aggregations(db, rules)
\* leaves every aggregate metric with the value the first call gave it and
\* prints no overwrite warning.
C2_ReapplyingRulesIsIdempotent ==
    ( /\ last.op = "apply_aggregations"
      /\ pre.last.op = "apply_aggregations"
      /\ pre.last.aggregations = last.aggregations
      /\ ~last.raised
      /\ ReadsNoAggregate(last.aggregations[1]) ) =>
        /\ ~last.warned
        /\ \A id \in DOMAIN pre.heap :
               (\E i \in DOMAIN last.aggregations[1] :
                    pre.heap[id].name = last.aggregations[1][i].name)
               => heap[id].value = pre.heap[id].value

\* C3: label lists with the same pairs in another order are one identity: they
\* share one flat_dict entry, and diff_metrics sets diff_value of a metric of
\* db whenever db_old holds a metric of that name under the same pairs.
C3_LabelSetIdentityIsOrderIndependent ==
    /\ \A i, j \in DOMAIN db.flat_dict :
           Range(db.flat_dict[i].k) = Range(db.flat_dict[j].k) => i = j
    /\ last.op = "diff_metrics" =>
           \A e \in Range(db.flat_dict) :
           \A id \in Range(e.v) :
               (\E o \in Range(db_old.flat_dict) :
                    /\ Range(o.k) = Range(e.k)
                    /\ \E oid \in Range(o.v) : heap[oid].name = heap[id].name)
               => heap[id].diff_value # None

\* the values of the keys group_by in the label list labels
Projection(labels, group_by) ==
    [j \in 1..Len(group_by) |->
        (CHOOSE pair \in Range(labels) : pair[1] = group_by[j])[2]]

\* the metrics named in `names` of the flat_dict rows that carry the keys
\* group_by with the values p
Summed(flat_dict, h, group_by, p, names) ==
    {id \in DOMAIN h :
        /\ h[id].name \in names
        /\ \E e \in Range(flat_dict) :
               /\ id \in Range(e.v)
               /\ Range(group_by) \subseteq {pair[1] : pair \in Range(e.k)}
               /\ Projection(e.k, group_by) = p}

\* C5: after apply_aggregations with one rule R (sum), for every projection p
\* onto R.group_by of the rows that hold a metric named in R.metrics, flat_dict
\* holds under the label list of the pairs (R.group_by, p) a metric named
\* R.name whose value is the sum, each metric taken once, of the metrics named
\* in R.metrics over the flat_dict rows that agree with p.
C5_AggregateIsSumOverFlatRows ==
    ( /\ last.op = "apply_aggregations"
      /\ ~last.raised
      /\ Len(last.aggregations[1]) = 1 ) =>
        LET R == last.aggregations[1][1]
        IN  \A e \in Range(pre.db.flat_dict) :
                ( /\ Range(R.group_by) \subseteq {pair[1] : pair \in Range(e.k)}
                  /\ \E id \in Range(e.v) :
                         pre.heap[id].name \in Range(R.metrics) ) =>
                    LET p == Projection(e.k, R.group_by)
                        label == Zip(R.group_by, p)
                    IN  /\ DictHas(db.flat_dict, label)
                        /\ \E id \in Range(DictGet(db.flat_dict, label)) :
                               /\ heap[id].name = R.name
                               /\ heap[id].value =
                                      SumValues(
                                          Summed(pre.db.flat_dict, pre.heap,
                                                 R.group_by, p,
                                                 Range(R.metrics)),
                                          pre.heap)

\* the metric of old_metrics that diff_metrics compares the metric m with
\* (<<>> when there is none): the first of that name
Previous(old_metrics, m, h) ==
    LET same == {i \in DOMAIN old_metrics : h[old_metrics[i]].name = h[m].name}
    IN  IF same = {} THEN <<>>
        ELSE <<h[old_metrics[CHOOSE i \in same : \A j \in same : i <= j]]>>

\* what diff_metrics leaves in the metric m compared with the metric p
Diffed(m, p) ==
    /\ heap[m].diff_value = Some(heap[m].value - p.value)
    /\ p.value # 0 =>
           heap[m].diff_percent =
               Some([num |-> heap[m].value - p.value, den |-> p.value])
    /\ p.value = 0 => heap[m].diff_percent = pre.heap[m].diff_percent

\* C6: after diff_metrics, for every label set held by both databases and
\* every metric m of db under it with a same-named metric p of db_old under it,
\* m.diff_value = m.value - p.value, and m.diff_percent = m.diff_value / p.value
\* is written if and only if p.value # 0.
C6_DiffValueAndPercent ==
    last.op = "diff_metrics" =>
        \A e \in Range(db.flat_dict) :
        \A o \in Range(db_old.flat_dict) :
            Range(o.k) = Range(e.k) =>
                \A m \in Range(e.v) :
                    Previous(o.v, m, heap) # <<>> =>
                        Diffed(m, Previous(o.v, m, heap)[1])

\* C6 for label lists written in the same order in both databases
C6_DiffValueAndPercentSameOrder ==
    last.op = "diff_metrics" =>
        \A e \in Range(db.flat_dict) :
        \A o \in Range(db_old.flat_dict) :
            o.k = e.k =>
                \A m \in Range(e.v) :
                    Previous(o.v, m, heap) # <<>> =>
                        Diffed(m, Previous(o.v, m, heap)[1])

\* the rules of an aggregation file are all sums
AllSums(aggregation_json) ==
    aggregation_json # None =>
        \A i \in DOMAIN aggregation_json[1] :
            aggregation_json[1][i].operation = "sum"

\* C7: at the end of generate_displayable_metrics a metric of db has diff_value
\* set if and only if a previous export was given and db_old holds a metric of
\* that name under the metric's label set; otherwise diff_value and
\* diff_percent are both unset; and nothing is raised.
C7_DiffSetIffPreviousHasMetric ==
    (last.op = "generate_displayable_metrics" /\ AllSums(last.aggregations)) =>
        /\ ~last.raised
        /\ \A e \in Range(db.flat_dict) :
           \A m \in Range(e.v) :
               LET has == /\ last.old_data # None
                          /\ \E o \in Range(db_old.flat_dict) :
                                 /\ Range(o.k) = Range(e.k)
                                 /\ Previous(o.v, m, heap) # <<>>
               IN  /\ heap[m].diff_value # None <=> has
                   /\ ~has => heap[m].diff_percent = None

\* C7 for complete records and label lists written in the same order in both
\* databases
C7_DiffSetIffPreviousHasMetricSameOrder ==
    ( /\ last.op = "generate_displayable_metrics"
      /\ AllSums(last.aggregations)
      /\ ~KeyErrorIn(last.data)
      /\ last.old_data # None => ~KeyErrorIn(last.old_data[1]) ) =>
        /\ ~last.raised
        /\ \A e \in Range(db.flat_dict) :
           \A m \in Range(e.v) :
               LET has == /\ last.old_data # None
                          /\ \E o \in Range(db_old.flat_dict) :
                                 /\ o.k = e.k
                                 /\ Previous(o.v, m, heap) # <<>>
               IN  /\ heap[m].diff_value # None <=> has
                   /\ ~has => heap[m].diff_percent = None

NonZero(record) == record.value # 0

\* the records of an export that ingestion is to keep: the counters that are not 0,
\* then every gauge
Kept(data) == SelectSeq(data.counter, NonZero) \o data.gauge

\* C8: MetricDb(data) puts in flat_dict one metric for every counter record of
\* data whose value is not 0 and one for every gauge record, whatever its
\* value, each under its record's labels with its record's name and value, and
\* no other metric.
C8_ZeroCountersDroppedGaugesKept ==
    (last.op = "MetricDb" /\ last.target = "db") =>
        LET base == Len(pre.heap)
            kept == Kept(last.data)
        IN  /\ Len(heap) = base + Len(kept)
            /\ \A i \in DOMAIN kept :
                   /\ heap[base + i].name = kept[i].metric
                   /\ heap[base + i].value = kept[i].value
                   /\ \E e \in Range(db.flat_dict) :
                          e.k = kept[i].labels /\ Count(base + i, e.v) = 1
            /\ \A e \in Range(db.flat_dict) :
               \A j \in DOMAIN e.v :
                   /\ e.v[j] \in (base + 1)..(base + Len(kept))
                   /\ kept[e.v[j] - base].labels = e.k

\* C8 witness: an export with a counter of value 0, a counter that is not 0
\* and a gauge of value 0 was ingested
C8_Witness ==
    /\ last.op = "MetricDb"
    /\ last.target = "db"
    /\ \E i \in DOMAIN last.data.counter : last.data.counter[i].value = 0
    /\ \E i \in DOMAIN last.data.counter : last.data.counter[i].value # 0
    /\ \E i \in DOMAIN last.data.gauge : last.data.gauge[i].value = 0
    /\ \E id \in DOMAIN heap : heap[id].value = 0
    /\ Len(heap) = 2

\* ---------------------------------------------------------------- properties of get_stack_lines

Args == fg_in.args

Counters == Args.metrics_dict.counter

\* the record passes the metric selector, carries every pair of group_by_kvs
\* and every key of stack_keys
Retained(counter) ==
    /\ IF Args.sum_metrics = None THEN counter.metric = Args.metric_name
       ELSE counter.metric \in Range(Args.sum_metrics[1])
    /\ \A kv \in Range(Args.group_by_kvs) : kv \in Range(counter.labels)
    /\ \A key \in Range(Args.stack_keys) :
           \E pair \in Range(counter.labels) : pair[1] = key

\* the path segments the specification gives a retained record: the values of
\* the stack keys, each offset of the span replaced by its symbol, or kept as
\* its text when it has none
RECURSIVE ClaimedSegments(_, _)
ClaimedSegments(counter, i) ==
    IF i > Len(Args.stack_keys) THEN <<>>
    ELSE LET key == Args.stack_keys[i]
             raw == (CHOOSE pair \in Range(counter.labels) : pair[1] = key)[2]
             offsets == Split(raw)
             here ==
                 IF key = "cycle_tracker_span" /\ raw # <<>>
                    /\ Args.string_table # None
                 THEN [j \in 1..Len(offsets) |->
                          LET symbol == get_function_symbol(
                                            Args.string_table[1], offsets[j])
                          IN  IF symbol = None THEN Some(offsets[j]) ELSE symbol]
                 ELSE <<Some(raw)>>
         IN  here \o ClaimedSegments(counter, i + 1)

ClaimedPath(counter) == Join(ClaimedSegments(counter, 1))

RECURSIVE SumOfValues(_, _)
SumOfValues(counters, indices) ==
    IF indices = {} THEN 0
    ELSE LET i == CHOOSE x \in indices : TRUE
         IN  counters[i].value + SumOfValues(counters, indices \ {i})

\* the weight accumulated on a path: the values of the retained records that
\* join to it
Weight(path) ==
    SumOfValues(Counters,
        {i \in DOMAIN Counters :
            Retained(Counters[i]) /\ ClaimedPath(Counters[i]) = path})

\* C4: an offset that cannot be resolved is not fatal: get_stack_lines
\* returns, and a single retained record with such an offset gives the one
\* line whose path holds the text of the offset.
C4_UnresolvedOffsetIsNotFatal ==
    fg_out.called =>
        /\ ~fg_out.raised
        /\ ( /\ Len(Counters) = 1
             /\ Retained(Counters[1])
             /\ Counters[1].value # 0 ) =>
               fg_out.lines = <<[stack |-> ClaimedPath(Counters[1]),
                                 value |-> Counters[1].value] >>

\* C9: get_stack_lines emits at most one line for a path, and the weight of a
\* line is the sum of the values of the retained records that join to its path.
C9_SamePathMerge ==
    fg_out.called =>
        /\ \A i, j \in DOMAIN fg_out.lines :
               fg_out.lines[i].stack = fg_out.lines[j].stack => i = j
        /\ \A i \in DOMAIN fg_out.lines :
               fg_out.lines[i].value = Weight(fg_out.lines[i].stack)

\* C9 witness: two retained records with different labels join to one path
\* and come out as one line with the sum of their values
C9_Witness ==
    /\ fg_out.called
    /\ ~fg_out.raised
    /\ Len(Counters) = 2
    /\ Counters[1].labels # Counters[2].labels
    /\ Retained(Counters[1])
    /\ Retained(Counters[2])
    /\ Counters[1].value = 2
    /\ Counters[2].value = 3
    /\ fg_out.lines = <<[stack |-> <<"f", ";", "g", ";", "a">>, value |-> 5] >>

\* the three parts of C10
ZeroWeightSuppressed ==
    /\ \A i \in DOMAIN fg_out.lines : fg_out.lines[i].value # 0
    /\ \A c \in Range(Counters) :
           (Retained(c) /\ Weight(ClaimedPath(c)) # 0) =>
               Cardinality({i \in DOMAIN fg_out.lines :
                               fg_out.lines[i].stack = ClaimedPath(c)}) = 1
    /\ (\A c \in Range(Counters) : Retained(c) => Weight(ClaimedPath(c)) = 0) =>
           (~fg_out.raised /\ fg_out.lines = <<>>)

\* C10: get_stack_lines emits no line of weight 0, exactly one line for every
\* path whose accumulated weight is not 0, and returns the empty list when
\* every accumulated weight is 0.
C10_ZeroWeightSuppressed == fg_out.called => ZeroWeightSuppressed

\* C10 for the calls that return
C10_ZeroWeightSuppressedWhenReturned ==
    (fg_out.called /\ ~fg_out.raised) => ZeroWeightSuppressed

\* the counters of the call that satisfy the three conditions, in their order
RetainedCounters == SelectSeq(Counters, Retained)

\* C11: a counter record that fails the metric selector, lacks a pair of
\* group_by_kvs or lacks a key of stack_keys changes nothing: the call gives
\* what it gives on the retained records alone, and every line's path is the
\* path of a retained record.
C11_OnlyRetainedRecordsContribute ==
    fg_out.called =>
        /\ LET r == get_stack_lines([counter |-> RetainedCounters],
                                    Args.group_by_kvs, Args.stack_keys,
                                    Args.metric_name, Args.sum_metrics,
                                    Args.string_table)
           IN  fg_out.raised = r.raised /\ fg_out.lines = r.lines
        /\ \A i \in DOMAIN fg_out.lines :
               \E c \in Range(Counters) :
                   Retained(c) /\ ClaimedPath(c) = fg_out.lines[i].stack

\* C11 witness: a call with the filter group = x whose first record, of group
\* y and value 3, is dropped, and whose second record gives the only line
C11_Witness ==
    /\ fg_out.called
    /\ ~fg_out.raised
    /\ Args.group_by_kvs # <<>>
    /\ Len(Counters) = 2
    /\ ~Retained(Counters[1])
    /\ Counters[1].value = 3
    /\ Counters[1].metric = "frequency"
    /\ \E pair \in Range(Counters[1].labels) : pair = <<"group", <<"y">>>>
    /\ Retained(Counters[2])
    /\ Len(fg_out.lines) = 1
    /\ fg_out.lines[1].value = 2

\* the byte k (from 0) of the table starts a symbol: it is the first byte or
\* follows a NUL, it is not a NUL, and a NUL ends the symbol inside the table
SymbolStart(table, k) ==
    /\ k < Len(table)
    /\ k = 0 \/ table[k] = NUL
    /\ table[k + 1] # NUL
    /\ \E e \in (k + 2)..Len(table) : table[e] = NUL

\* the symbol that starts at the byte k: the bytes up to the next NUL
SymbolAt(table, k) ==
    LET e == CHOOSE x \in (k + 2)..Len(table) :
                 /\ table[x] = NUL
                 /\ \A y \in (k + 2)..(x - 1) : table[y] # NUL
    IN  SubSeq(table, k + 1, e - 1)

\* the value of the key cycle_tracker_span in the labels of a record
SpanOf(counter) ==
    (CHOOSE pair \in Range(counter.labels) : pair[1] = "cycle_tracker_span")[2]

\* every offset of the record's span is a decimal number that starts a symbol
AllOffsetsAtSymbols(counter) ==
    \A offset \in Range(Split(SpanOf(counter))) :
        IsDigits(offset)
        /\ SymbolStart(Args.string_table[1], DecimalValue(offset))

\* the record's span is resolved through the table
UsesTable(counter) == Args.string_table # None /\ SpanOf(counter) # <<>>

\* the path segments C12 gives a retained record: the symbols of the offsets
\* of the span, or the span as it is, then the values of the other keys
RECURSIVE ResolvedSegments(_, _)
ResolvedSegments(counter, i) ==
    IF i > Len(Args.stack_keys) THEN <<>>
    ELSE LET key == Args.stack_keys[i]
             raw == (CHOOSE pair \in Range(counter.labels) : pair[1] = key)[2]
             offsets == Split(raw)
             here ==
                 IF key = "cycle_tracker_span" /\ UsesTable(counter)
                 THEN [j \in 1..Len(offsets) |->
                          Some(SymbolAt(Args.string_table[1],
                                        DecimalValue(offsets[j])))]
                 ELSE <<Some(raw)>>
         IN  here \o ResolvedSegments(counter, i + 1)

\* the records C12 speaks of: retained, with a span that is not resolved
\* through the table or whose offsets all start a symbol
Resolvable(counter) ==
    Retained(counter) /\ (UsesTable(counter) => AllOffsetsAtSymbols(counter))

\* C12: with a symbol table, every offset of a span that starts a symbol is
\* replaced by that symbol, one segment per offset in order; without a table
\* or with an empty span the span is one segment as it is.  A call whose
\* retained records are all of that kind returns, and every such record of a
\* value that is not 0 has a line with that path.
C12_OffsetsResolveToSymbols ==
    fg_out.called =>
        /\ (\A c \in Range(Counters) : Retained(c) => Resolvable(c)) =>
               ~fg_out.raised
        /\ ~fg_out.raised =>
               \A c \in Range(Counters) :
                   (Resolvable(c) /\ c.value # 0) =>
                       \E i \in DOMAIN fg_out.lines :
                           fg_out.lines[i].stack =
                               Join(ResolvedSegments(c, 1))

\* C12 witness: with the table m NUL h NUL z, the span 0;2 and the op a give
\* the one line m;h;a
C12_Witness ==
    /\ fg_out.called
    /\ Args.string_table = Some(StringTable)
    /\ Len(Counters) = 1
    /\ Retained(Counters[1])
    /\ SpanOf(Counters[1]) = <<"0", ";", "2">>
    /\ Counters[1].value = 2
    /\ fg_out.lines = <<[stack |-> <<"m", ";", "h", ";", "a">>, value |-> 2] >>

\* keys is the canonical key tuple of the label list labels: the keys of
\* labels, "group" first if it is one of them, the others in ascending order
CanonKeys(labels, keys) ==
    /\ Len(keys) = Len(labels)
    /\ Range(keys) = {pair[1] : pair \in Range(labels)}
    /\ "group" \in Range(keys) => keys[1] = "group"
    /\ \A i, j \in DOMAIN keys :
           (i < j /\ keys[i] # "group" /\ keys[j] # "group") =>
               StrRank[keys[i]] < StrRank[keys[j]]

\* values holds, at the position of every key of keys, that key's value in labels
CanonValues(labels, keys, values) ==
    /\ Len(values) = Len(keys)
    /\ \A i \in DOMAIN keys : <<keys[i], values[i]>> \in Range(labels)

\* the key tuples of a shaped index and the value tuples under each
ShapeKeys(by_types) ==
    [i \in DOMAIN by_types |->
        [k |-> by_types[i].k,
         v |-> [j \in DOMAIN by_types[i].v |-> by_types[i].v[j].k]]]

\* C13: separate_by_label_types files every flat_dict entry under the
\* canonical key tuple of its labels ("group" first, the other keys ascending)
\* and the value tuple aligned with it; every key tuple of the index is the
\* canonical one of some entry; entries with the same pairs in another order
\* go to the same row; the empty label list goes to the empty tuples; and a
\* repeated call leaves the key and value tuples as they were.
C13_LabelKeyNormalizationIsCanonical ==
    /\ \A e \in Range(db.flat_dict) :
           \E s \in Range(db.dict_by_label_types) :
               /\ CanonKeys(e.k, s.k)
               /\ \E r \in Range(s.v) :
                      /\ CanonValues(e.k, s.k, r.k)
                      /\ Range(e.v) \subseteq Range(r.v)
                      /\ e.k = <<>> => (s.k = <<>> /\ r.k = <<>>)
                      /\ \A o \in Range(db.flat_dict) :
                             Range(o.k) = Range(e.k) =>
                                 Range(o.v) \subseteq Range(r.v)
    /\ \A s \in Range(db.dict_by_label_types) :
       \A r \in Range(s.v) :
           \E e \in Range(db.flat_dict) :
               CanonKeys(e.k, s.k) /\ CanonValues(e.k, s.k, r.k)
    /\ \A i, j \in DOMAIN db.dict_by_label_types :
           db.dict_by_label_types[i].k = db.dict_by_label_types[j].k => i = j
    /\ last.op = "separate_by_label_types" =>
           ShapeKeys(db.dict_by_label_types)
               = ShapeKeys(pre.db.dict_by_label_types)

\* C13 witness: after a repeated call, the database holds the label list
\* (air, group), filed under ("group", "air"), and the label list (seg, air),
\* filed under ("air", "seg")
C13_Witness ==
    /\ last.op = "separate_by_label_types"
    /\ DictHas(db.flat_dict, LAG)
    /\ DictHas(db.flat_dict, LSA)
    /\ DictHas(db.dict_by_label_types, <<"group", "air">>)
    /\ DictHas(db.dict_by_label_types, <<"air", "seg">>)
    /\ Len(db.dict_by_label_types) = 2

\* flat_dict holds a metric named name under a label list made of exactly the
\* pairs (group_by[j], p[j])
Recorded(flat_dict, h, group_by, p, name) ==
    \E o \in Range(flat_dict) :
        /\ Len(o.k) = Len(group_by)
        /\ Range(o.k) = Range(Zip(group_by, p))
        /\ \E id \in Range(o.v) : h[id].name = name

\* the flat_dict row e carries every key of group_by
Carries(e, group_by) ==
    Range(group_by) \subseteq {pair[1] : pair \in Range(e.k)}

\* C14 as stated: after apply_aggregations, for every rule and every
\* projection onto its group_by of a row that carries the group_by keys, a
\* metric named rule.name is recorded under exactly the pairs of the projection.
C14_AggregateForEveryProjection ==
    (last.op = "apply_aggregations" /\ ~last.raised) =>
        \A R \in Range(last.aggregations[1]) :
        \A e \in Range(pre.db.flat_dict) :
            Carries(e, R.group_by) =>
                Recorded(db.flat_dict, heap, R.group_by,
                         Projection(e.k, R.group_by), R.name)

\* C14 amended: the same for the projections of the rows that hold, when the
\* call starts, at least one metric named in rule.metrics.
C14_AggregateForEverySummedProjection ==
    (last.op = "apply_aggregations" /\ ~last.raised) =>
        \A R \in Range(last.aggregations[1]) :
        \A e \in Range(pre.db.flat_dict) :
            ( /\ Carries(e, R.group_by)
              /\ \E id \in Range(e.v) :
                     pre.heap[id].name \in Range(R.metrics) ) =>
                Recorded(db.flat_dict, heap, R.group_by,
                         Projection(e.k, R.group_by), R.name)

\* C14 witness: the rules total = sum of cycles and grand = sum of total were
\* applied to a database whose row group = y held cycles and no total: total
\* is recorded under group = y, grand is not
C14_Witness ==
    /\ last.op = "apply_aggregations"
    /\ ~last.raised
    /\ last.aggregations = Some(<<SumCycles, SumTotals>>)
    /\ DictHas(pre.db.flat_dict, LY)
    /\ \A id \in Range(DictGet(pre.db.flat_dict, LY)) :
           pre.heap[id].name = "cycles"
    /\ Recorded(db.flat_dict, heap, <<"group">>, <<"y">>, "total")
    /\ ~Recorded(db.flat_dict, heap, <<"group">>, <<"y">>, "grand")

\* the metrics named name that flat_dict lists under the label list labels
NamedIn(flat_dict, h, labels, name) ==
    IF DictHas(flat_dict, labels)
    THEN SelectSeq(DictGet(flat_dict, labels), LAMBDA id : h[id].name = name)
    ELSE <<>>

\* the label lists the rule R injects a sum under: the projections of the rows
\* that held a metric named in R.metrics when the call started
InjectedLabels(R) ==
    {Zip(R.group_by, Projection(e.k, R.group_by)) :
        e \in {x \in Range(pre.db.flat_dict) :
                  /\ Carries(x, R.group_by)
                  /\ \E id \in Range(x.v) :
                         pre.heap[id].name \in Range(R.metrics)}}

\* the injection of R under L overwrote a metric whose value was another
OverwroteOther(R, L) ==
    LET old == NamedIn(pre.db.flat_dict, pre.heap, L, R.name)
    IN  old # <<>> /\ pre.heap[old[1]].value # heap[old[1]].value

\* C15: after apply_aggregations, under every label list L a rule R injected
\* into, the metrics flat_dict[L] listed stay listed in their order, and: if
\* flat_dict[L] held a metric named R.name, the metrics named R.name are the
\* same and none is added; otherwise exactly one new metric named R.name is
\* listed.  The overwrite warning is printed if and only if some overwritten
\* metric had another value.  Under no label list does the number of metrics
\* named R.name grow by more than one, nor grow at all where there was one.
C15_InjectOverwritesOrAppendsOnce ==
    (last.op = "apply_aggregations" /\ ~last.raised) =>
        /\ \A R \in Range(last.aggregations[1]) :
           \A L \in InjectedLabels(R) :
               LET old == NamedIn(pre.db.flat_dict, pre.heap, L, R.name)
                   new == NamedIn(db.flat_dict, heap, L, R.name)
                   before == IF DictHas(pre.db.flat_dict, L)
                             THEN DictGet(pre.db.flat_dict, L) ELSE <<>>
                   after == DictGet(db.flat_dict, L)
               IN  /\ SubSeq(after, 1, Len(before)) = before
                   /\ IF old # <<>>
                      THEN new = old
                      ELSE Len(new) = 1 /\ new[1] > Len(pre.heap)
        /\ last.warned <=>
               \E R \in Range(last.aggregations[1]) :
               \E L \in InjectedLabels(R) : OverwroteOther(R, L)
        /\ \A R \in Range(last.aggregations[1]) :
           \A o \in Range(db.flat_dict) :
               LET before == Len(NamedIn(pre.db.flat_dict, pre.heap, o.k, R.name))
                   after == Len(NamedIn(db.flat_dict, heap, o.k, R.name))
               IN  /\ after <= before + 1
                   /\ before >= 1 => after = before

\* C15 witness: the gauge total = 2 under group = x was overwritten in place
\* by the sum 1 with a warning, and total was appended under group = y
C15_Witness ==
    /\ last.op = "apply_aggregations"
    /\ ~last.raised
    /\ last.warned
    /\ last.aggregations = Some(<<SumCycles>>)
    /\ OverwroteOther(SumCycles, LG)
    /\ NamedIn(pre.db.flat_dict, pre.heap, LY, "total") = <<>>
    /\ Len(NamedIn(db.flat_dict, heap, LY, "total")) = 1
    /\ pre.last.op = "MetricDb"

\* the sums of the rule R over the shaped view and the metric values as they
\* were when the call started, by group_by values
StartSums(R) ==
    GroupByDict(R, TypeItems(pre.db.dict_by_label_types, 1), 1, pre.heap, <<>>)

\* the value apply_aggregations left in the metric named R.name under the
\* label list of the group_by values g equals v
LeftValue(R, g, v) ==
    LET named == NamedIn(db.flat_dict, heap, Zip(R.group_by, g), R.name)
    IN  named # <<>> /\ heap[named[1]].value = v

\* C16: within one apply_aggregations call every rule sums the metric values
\* as they were in the shaped view when the call started: the aggregate of
\* every rule is the sum taken over the view and the values of that moment,
\* whatever the earlier rules of the call injected or overwrote.
C16_RulesSumValuesOfCallStart ==
    (last.op = "apply_aggregations" /\ ~last.raised) =>
        \A R \in Range(last.aggregations[1]) :
        \A g \in Range(StartSums(R)) : LeftValue(R, g.k, g.v)

\* C16 for the calls in which no rule overwrote a metric by another value
C16_RulesSumValuesOfCallStartWithoutOverwrite ==
    (last.op = "apply_aggregations" /\ ~last.raised /\ ~last.warned) =>
        \A R \in Range(last.aggregations[1]) :
        \A g \in Range(StartSums(R)) : LeftValue(R, g.k, g.v)

\* the positions of the rules of the list whose operation is not "sum"
NotSums(aggregations) ==
    {i \in DOMAIN aggregations : aggregations[i].operation # "sum"}

\* the first of them
FirstNotSum(aggregations) ==
    CHOOSE i \in NotSums(aggregations) :
        \A j \in NotSums(aggregations) : i <= j

\* C17: apply_aggregations raises if and only if a rule of the list is not a
\* sum; it then leaves what the rules before the first such rule leave (and
\* the shaped index as it was), and no metric of a later rule is added.
C17_FailsAtFirstUnsupportedOperation ==
    last.op = "apply_aggregations" =>
        LET rules == last.aggregations[1]
        IN  /\ last.raised <=> NotSums(rules) # {}
            /\ last.raised =>
                   LET k == FirstNotSum(rules)
                       r == apply_aggregations(pre.db, SubSeq(rules, 1, k - 1),
                                               pre.heap)
                   IN  /\ db.flat_dict = r.db.flat_dict
                       /\ heap = r.heap
                       /\ db.dict_by_label_types = pre.db.dict_by_label_types
                       /\ \A j \in (k + 1)..Len(rules) :
                          \A id \in (Len(pre.heap) + 1)..Len(heap) :
                              heap[id].name # rules[j].name

\* C17 witness: the list (max of cycles, sum of cycles) was applied to a
\* database with a cycles metric under group = y: the call raised and no
\* total was recorded
C17_Witness ==
    /\ last.op = "apply_aggregations"
    /\ last.raised
    /\ last.aggregations = Some(<<MaxCycles, SumCycles>>)
    /\ DictHas(pre.db.flat_dict, LY)
    /\ NamedIn(pre.db.flat_dict, pre.heap, LY, "cycles") # <<>>
    /\ NamedIn(db.flat_dict, heap, LY, "total") = <<>>
    /\ heap = pre.heap

\* some counter or gauge record of the export lacks its labels, metric or value
Lacking(data) ==
    \E record \in Range(data.counter) \cup Range(data.gauge) :
        ~({"labels", "metric", "value"} \subseteq DOMAIN record)

\* C18: generate_displayable_metrics on a current or previous export with a
\* record that lacks its labels, metric or value raises: the call returns no
\* report; and when the current export is the one, no database was built and
\* no Metric was created.
C18_MalformedExportIsFatal ==
    last.op = "generate_displayable_metrics" =>
        /\ (Lacking(last.data)
            \/ (last.old_data # None /\ Lacking(last.old_data[1]))) =>
               last.raised
        /\ Lacking(last.data) => (db = EmptyDb /\ heap = pre.heap)
        /\ (last.old_data # None /\ Lacking(last.old_data[1])) =>
               db_old = EmptyDb

\* C18 witness: the current export held a complete counter and then a counter
\* of value 0 without its metric, and the call raised
C18_Witness ==
    /\ last.op = "generate_displayable_metrics"
    /\ last.raised
    /\ last.aggregations = None
    /\ Len(last.data.counter) = 2
    /\ ~Lacking([counter |-> <<last.data.counter[1]>>, gauge |-> <<>>])
    /\ DOMAIN last.data.counter[2] = {"labels", "value"}
    /\ last.data.counter[2].value = 0
    /\ db = EmptyDb

\* the metrics of the list metrics that have the name of the metric m
SameNamed(metrics, m, h) ==
    SelectSeq(metrics, LAMBDA id : h[id].name = h[m].name)

\* C19: after diff_metrics, where db_old lists two or more metrics of one name
\* under a label set, every metric of that name that db lists under that
\* label set is diffed against the first of them.
C19_DiffAgainstFirstDuplicate ==
    last.op = "diff_metrics" =>
        \A e \in Range(db.flat_dict) :
        \A o \in Range(db_old.flat_dict) :
            Range(o.k) = Range(e.k) =>
                \A m \in Range(e.v) :
                    Len(SameNamed(o.v, m, heap)) >= 2 =>
                        Diffed(m, heap[SameNamed(o.v, m, heap)[1]])

\* C19 for label lists written in the same order in both databases
C19_DiffAgainstFirstDuplicateSameOrder ==
    last.op = "diff_metrics" =>
        \A e \in Range(db.flat_dict) :
        \A o \in Range(db_old.flat_dict) :
            o.k = e.k =>
                \A m \in Range(e.v) :
                    Len(SameNamed(o.v, m, heap)) >= 2 =>
                        Diffed(m, heap[SameNamed(o.v, m, heap)[1]])

\* a state in which C19_DiffAgainstFirstDuplicateSameOrder has its case: the
\* two duplicates have different values and the metric is diffed against the
\* first
DuplicateDiffed ==
    /\ last.op = "diff_metrics"
    /\ \E e \in Range(db.flat_dict) :
       \E o \in Range(db_old.flat_dict) :
       \E m \in Range(e.v) :
           /\ o.k = e.k
           /\ Len(SameNamed(o.v, m, heap)) = 2
           /\ heap[SameNamed(o.v, m, heap)[1]].value
                  # heap[SameNamed(o.v, m, heap)[2]].value
           /\ heap[m].diff_value
                  = Some(heap[m].value - heap[SameNamed(o.v, m, heap)[1]].value)

\* the projections onto R.group_by of the rows of the database built from the
\* export data that carry the keys of R.group_by
ProjectionsIn(data, R) ==
    {Projection(e.k, R.group_by) :
        e \in {x \in Range(MetricDb(data, <<>>).db.flat_dict) :
                  Carries(x, R.group_by)}}

\* those of the rows that also hold a metric named in R.metrics: the
\* projections the rule R injects a sum for into the database built from data
SummedProjectionsIn(data, R) ==
    {Projection(e.k, R.group_by) :
        e \in {x \in Range(MetricDb(data, <<>>).db.flat_dict) :
                  /\ Carries(x, R.group_by)
                  /\ \E id \in Range(x.v) :
                         MetricDb(data, <<>>).heap[id].name \in Range(R.metrics)}}

\* db and db_old both list a metric named R.name under the pairs of the
\* projection p, and the one of db is diffed against the one of db_old
AggregateDiffed(R, p) ==
    LET L == Zip(R.group_by, p)
        cur == NamedIn(db.flat_dict, heap, L, R.name)
        old == NamedIn(db_old.flat_dict, heap, L, R.name)
    IN  /\ cur # <<>>
        /\ old # <<>>
        /\ heap[cur[1]].diff_value
               = Some(heap[cur[1]].value - heap[old[1]].value)

\* generate_displayable_metrics returned, having been given a previous export
\* and an aggregation file
ReportedWithBoth ==
    /\ last.op = "generate_displayable_metrics"
    /\ ~last.raised
    /\ last.old_data # None
    /\ last.aggregations # None

\* C20 as stated: at the end of generate_displayable_metrics with an
\* aggregation file and a previous export, for every rule and every projection
\* the rule injects an aggregate for in the current database and that occurs
\* in the previous database, the aggregate of the current database has
\* diff_value = its value minus the value of the aggregate of the previous
\* database.
C20_AggregatesAreDiffed ==
    ReportedWithBoth =>
        \A R \in Range(last.aggregations[1]) :
        \A p \in SummedProjectionsIn(last.data, R)
                     \cap ProjectionsIn(last.old_data[1], R) :
            AggregateDiffed(R, p)

\* C20 amended: the same for the projections the rule injects an aggregate
\* for in both databases, which are those of the rows that hold a metric
\* named in rule.metrics.
C20_AggregatesOfBothAreDiffed ==
    ReportedWithBoth =>
        \A R \in Range(last.aggregations[1]) :
        \A p \in SummedProjectionsIn(last.data, R)
                     \cap SummedProjectionsIn(last.old_data[1], R) :
            AggregateDiffed(R, p)

\* C20 witness: total = sum of cycles was injected under group = x into both
\* databases by appending, with sums that differ, and the one of the current
\* database carries the difference
C20_Witness ==
    /\ ReportedWithBoth
    /\ last.aggregations = Some(<<SumCycles>>)
    /\ <<"x">> \in SummedProjectionsIn(last.data, SumCycles)
                      \cap SummedProjectionsIn(last.old_data[1], SumCycles)
    /\ last.data.gauge = <<>>
    /\ last.old_data[1].gauge = <<>>
    /\ AggregateDiffed(SumCycles, <<"x">>)
    /\ heap[NamedIn(db.flat_dict, heap, LG, "total")[1]].diff_value
           \notin {None, Some(0)}

\* every metric of every flat_dict entry of the database d is listed in the
\* row of the entry's canonical keys and values
FlatInShaped(d) ==
    \A e \in Range(d.flat_dict) :
        \E s \in Range(d.dict_by_label_types) :
        \E r \in Range(s.v) :
            /\ CanonKeys(e.k, s.k)
            /\ CanonValues(e.k, s.k, r.k)
            /\ Range(e.v) \subseteq Range(r.v)

\* every metric of every row of the database d is a metric of a flat_dict
\* entry with the row's keys and values
ShapedInFlat(d) ==
    \A s \in Range(d.dict_by_label_types) :
    \A r \in Range(s.v) :
    \A id \in Range(r.v) :
        \E e \in Range(d.flat_dict) :
            HasShape(e.k, s.k, r.k) /\ id \in Range(e.v)

Unlisted(by_types, id) ==
    \A s \in Range(by_types) : \A r \in Range(s.v) : id \notin Range(r.v)

\* C22: when apply_aggregations raises at the rule number k, the shaped index
\* is the one of the start of the call, and flat_dict keeps its entries and
\* holds what the rules 1..k-1 wrote: under the label list of each of their
\* sums, a metric named after the rule (for the first rule, with the sum as
\* its value), which no row of the shaped index lists if the rule appended it.
C22_RaisingCallIsNotAtomic ==
    (last.op = "apply_aggregations" /\ last.raised) =>
        LET rules == last.aggregations[1]
            k == FirstNotSum(rules)
        IN  /\ db.dict_by_label_types = pre.db.dict_by_label_types
            /\ \A e \in Range(pre.db.flat_dict) :
                   /\ DictHas(db.flat_dict, e.k)
                   /\ SubSeq(DictGet(db.flat_dict, e.k), 1, Len(e.v)) = e.v
            /\ \A j \in 1..(k - 1) :
               \A g \in Range(StartSums(rules[j])) :
                   LET L == Zip(rules[j].group_by, g.k)
                       old == NamedIn(pre.db.flat_dict, pre.heap, L,
                                      rules[j].name)
                       new == NamedIn(db.flat_dict, heap, L, rules[j].name)
                   IN  /\ new # <<>>
                       /\ j = 1 => heap[new[1]].value = g.v
                       /\ old = <<>> =>
                              /\ new[1] > Len(pre.heap)
                              /\ Unlisted(db.dict_by_label_types, new[1])

\* C22 witness: the list (sum of cycles, max of cycles) raised at its second
\* rule; total was appended under group = x, the shaped index is the one of
\* the start and does not list it
C22_Witness ==
    /\ last.op = "apply_aggregations"
    /\ last.raised
    /\ last.aggregations = Some(<<SumCycles, MaxCycles>>)
    /\ NamedIn(pre.db.flat_dict, pre.heap, LG, "total") = <<>>
    /\ NamedIn(db.flat_dict, heap, LG, "total") # <<>>
    /\ Unlisted(db.dict_by_label_types,
                NamedIn(db.flat_dict, heap, LG, "total")[1])
    /\ db.dict_by_label_types = pre.db.dict_by_label_types
    /\ db.flat_dict # pre.db.flat_dict

\* the metrics the database d lists
MetricsOf(d) == UNION {Range(e.v) : e \in Range(d.flat_dict)}

\* C23: diff_metrics(db, db_old) leaves db_old as it was, indexes and metrics;
\* in db it adds no metric to flat_dict and removes none, creates no Metric,
\* and leaves every name and value: only diff_value and diff_percent of the
\* metrics of db, and the shaped index of db, may differ.
C23_DiffChangesOnlyDiffFields ==
    last.op = "diff_metrics" =>
        /\ db_old = pre.db_old
        /\ db.flat_dict = pre.db.flat_dict
        /\ DOMAIN heap = DOMAIN pre.heap
        /\ \A id \in DOMAIN heap :
               /\ heap[id].name = pre.heap[id].name
               /\ heap[id].value = pre.heap[id].value
               /\ id \notin MetricsOf(db) => heap[id] = pre.heap[id]

\* C23 witness: diff_metrics set the diff_value of a metric of db, against a
\* metric of db_old that is as it was
C23_Witness ==
    /\ last.op = "diff_metrics"
    /\ \E id \in MetricsOf(db) :
           /\ pre.heap[id].diff_value = None
           /\ heap[id].diff_value # None
    /\ MetricsOf(db_old) # {}
    /\ \A id \in MetricsOf(db_old) : heap[id] = pre.heap[id]

\* the label list L is made of pairs of the keys R.group_by, in their order
GroupByLabel(R, L) ==
    /\ Len(L) = Len(R.group_by)
    /\ \A j \in DOMAIN L : L[j][1] = R.group_by[j]

\* the metric id is named after a rule of the list and flat_dict lists it
\* under a label list made of that rule's group_by pairs, and nowhere else
AggregateOf(rules, id) ==
    \E R \in Range(rules) :
        /\ heap[id].name = R.name
        /\ \E e \in Range(db.flat_dict) :
               /\ id \in Range(e.v)
               /\ GroupByLabel(R, e.k)
               /\ \A o \in Range(db.flat_dict) : id \in Range(o.v) => o = e

\* C24: apply_aggregations, whether it returns or raises, keeps every label
\* list of flat_dict and every metric under it, in their order, and the name
\* and the diff fields of every metric; a metric whose value it changes, and
\* a metric it adds, is named after a rule of the list and sits under a label
\* list made of that rule's group_by pairs; so does every label list it adds.
C24_AggregationTouchesOnlyAggregates ==
    last.op = "apply_aggregations" =>
        LET rules == last.aggregations[1]
        IN  /\ \A e \in Range(pre.db.flat_dict) :
                   /\ DictHas(db.flat_dict, e.k)
                   /\ SubSeq(DictGet(db.flat_dict, e.k), 1, Len(e.v)) = e.v
            /\ Len(heap) >= Len(pre.heap)
            /\ \A id \in DOMAIN pre.heap :
                   /\ heap[id].name = pre.heap[id].name
                   /\ heap[id].diff_value = pre.heap[id].diff_value
                   /\ heap[id].diff_percent = pre.heap[id].diff_percent
                   /\ heap[id].value # pre.heap[id].value =>
                          AggregateOf(rules, id)
            /\ \A id \in DOMAIN heap \ DOMAIN pre.heap : AggregateOf(rules, id)
            /\ \A e \in Range(db.flat_dict) :
                   ~DictHas(pre.db.flat_dict, e.k) =>
                       \E R \in Range(rules) : GroupByLabel(R, e.k)

\* C24 witness: one call changed the value of a metric named total, added a
\* metric, and left a metric named cycles, listed under the same label list
\* as the changed one, as it was
C24_Witness ==
    /\ last.op = "apply_aggregations"
    /\ \E id \in DOMAIN pre.heap :
           /\ heap[id].name = "total"
           /\ heap[id].value # pre.heap[id].value
           /\ \E e \in Range(db.flat_dict) :
              \E c \in Range(e.v) :
                  /\ id \in Range(e.v)
                  /\ heap[c].name = "cycles"
                  /\ c \in DOMAIN pre.heap
                  /\ heap[c] = pre.heap[c]
    /\ Len(heap) > Len(pre.heap)

\* the sum of the weights of the lines from the line number i on
RECURSIVE TotalWeight(_, _)
TotalWeight(lines, i) ==
    IF i > Len(lines) THEN 0
    ELSE lines[i].value + TotalWeight(lines, i + 1)

\* the sum of the values of the retained records of the call
RetainedTotal ==
    SumOfValues(Counters, {i \in DOMAIN Counters : Retained(Counters[i])})

\* C25: the weights of the lines get_stack_lines gives add up to the sum of
\* the values of the counter records that pass the metric selector, the
\* group_by_kvs filter and the stack_keys presence test.
C25_TotalWeightIsRetainedTotal ==
    fg_out.called => TotalWeight(fg_out.lines, 1) = RetainedTotal

\* C25 for the calls that return
C25_TotalWeightIsRetainedTotalWhenReturned ==
    (fg_out.called /\ ~fg_out.raised) =>
        TotalWeight(fg_out.lines, 1) = RetainedTotal

\* a call that returned the line of a retained record and nothing for a
\* record of another value that is not retained
RetainedAloneReturned ==
    /\ fg_out.called
    /\ ~fg_out.raised
    /\ Len(fg_out.lines) = 1
    /\ \E c \in Range(Counters) : ~Retained(c) /\ c.value # 0
    /\ RetainedTotal # 0
    /\ TotalWeight(fg_out.lines, 1) = RetainedTotal

\* generate_displayable_metrics returned, having been given a previous export
ReportedWithPrevious ==
    /\ last.op = "generate_displayable_metrics"
    /\ ~last.raised
    /\ last.old_data # None

\* the records c and z are of one name and one label set
SameSeries(c, z) ==
    c.metric = z.metric /\ Range(c.labels) = Range(z.labels)

\* the export data has a record that ingestion keeps (a counter that is not
\* 0, or a gauge) of the name of the record c under the label list of c
KeptAs(data, c) ==
    \E k \in Range(Kept(data)) : k.metric = c.metric /\ k.labels = c.labels

\* every metric of db of the name of the record c under its label list has
\* no diff_value and no diff_percent
ReportedAsNew(c) ==
    \A id \in Range(NamedIn(db.flat_dict, heap, c.labels, c.metric)) :
        heap[id].diff_value = None /\ heap[id].diff_percent = None

====
